---------------------------- MODULE Spec2Model ----------------------------
(***************************************************************************)
(* Model of the KHARMA flux pipeline:                                      *)
(*   - HARMDriver::MakeTaskList (fluxes.hpp): the per-stage task graph;    *)
(*   - LRToFlux (fluxes.hpp): the local Lax-Friedrichs flux kernel;        *)
(*   - GRMHD::FluxCT (flux_ct.cpp): the flux-CT constrained transport.     *)
(* Each part has its own specification over the same variables; the parts  *)
(* a specification does not exercise stay at their idle values.            *)
(***************************************************************************)
EXTENDS Integers, Naturals, Sequences, FiniteSets, TLC

VARIABLES
    \* ---- task graph (MakeTaskList and the task-list executor) ----
    nstages,      \* integrator->nstages
    adaptive,     \* pmesh->adaptive
    stage,        \* the stage whose task list is being built / executed
    tl,           \* the task list: task |-> TaskID set it depends on
    status,       \* task |-> "pending" | "running" | "complete"
    containers,   \* pmb->real_containers: id |-> [ucount, pver]
    capt,         \* conservative version FillDerived is recovering from
    lastWritten,  \* the container UpdateContainer filled last
    dtset,        \* number of SetBlockTimestep calls so far
    refchk,       \* number of CheckRefinementCondition calls so far
    \* ---- GRMHD::FluxCT ----
    F,            \* F[d][b][k][j][i]: flux[XdDIR] of c.c.bulk.cons, component Bb
    emf,          \* emf[c][k][j][i]: the local arrays emf1, emf2, emf3
    ctpc,         \* position inside FluxCT
    emfW,         \* the zones (k, j, i) flux_ct_emf has written in this call
    ctW,          \* the zones (k, j, i) flux_ct has rewritten in this call
    \* ---- LRToFlux ----
    dir,          \* the direction tag LRToFlux is called with
    loc,          \* Loci loc (unset until the switch assigns it)
    geom,         \* which geometry pmb->coords describes
    pl, pr,       \* the reconstructed primitives handed in, pl[k][j][i]
    off,          \* (kl-k, jl-j, il-i): where the kernel read the left state
    flux,         \* flux[p][k][j][i] as written by uber_flux
    ctop,         \* ctop(dir, k, j, i) as written by uber_flux: ctop[k][j][i]
    lrW,          \* the faces (k, j, i) uber_flux has written
    lrpc,         \* position inside LRToFlux
    \* ---- one evaluation of the speed blend of uber_flux ----
    vchar,        \* the four speeds mhd_vchar returned
    ctop_loc_out, \* the value stored in ctop
    vpc,
    \* ---- kernel iterations in flight ----
    inflight      \* the kernel iterations executing at this moment

tlvars == <<nstages, adaptive, stage, tl, status, containers, capt,
            lastWritten, dtset, refchk>>

ctvars == <<F, emf, ctpc, emfW, ctW>>
lrvars == <<dir, loc, geom, pl, pr, off, flux, ctop, lrW, lrpc>>
vcvars == <<vchar, ctop_loc_out, vpc>>
parvars == <<inflight>>

vars == <<nstages, adaptive, stage, tl, status, containers, capt,
          lastWritten, dtset, refchk, F, emf, ctpc, emfW, ctW,
          dir, loc, geom, pl, pr, off, flux, ctop, lrW, lrpc,
          vchar, ctop_loc_out, vpc, inflight>>


\* Values of the variables of a part that is not being exercised.
TLIdle ==
    /\ nstages = 0
    /\ adaptive = FALSE
    /\ stage = 0
    /\ tl = <<>>
    /\ status = <<>>
    /\ containers = <<>>
    /\ capt = 0
    /\ lastWritten = 0
    /\ dtset = 0
    /\ refchk = 0

CTIdle ==
    /\ F = <<>>
    /\ emf = <<>>
    /\ ctpc = "idle"
    /\ emfW = {}
    /\ ctW = {}

LRIdle ==
    /\ dir = 0
    /\ loc = "unset"
    /\ geom = "flat"
    /\ pl = <<>>
    /\ pr = <<>>
    /\ off = <<>>
    /\ flux = <<>>
    /\ ctop = <<>>
    /\ lrW = {}
    /\ lrpc = "idle"

VCIdle ==
    /\ vchar = <<>>
    /\ ctop_loc_out = 0
    /\ vpc = "idle"

ParIdle == inflight = {}

(***************************************************************************)
(*                     The mesh block and GRMHD::FluxCT                    *)
(***************************************************************************)

\* Interior cells per direction of the block.
NInt == 2
\* Ghost cells per side of the block: the smallest width the properties of
\* FluxCT are stated for.
NGhost == 2

\* pmb->cellbounds: ncells, start and end index of a domain, the same in
\* the three directions.
ncells == NInt + 2 * NGhost
entire_s == 0
entire_e == ncells - 1
interior_s == NGhost
interior_e == NGhost + NInt - 1

Cells == entire_s..entire_e

\* prims::B1, prims::B2, prims::B3 (as the magnetic components 1..3) and the
\* flux directions X1DIR, X2DIR, X3DIR.
B1 == "B1"
B2 == "B2"
B3 == "B3"
BComps == {B1, B2, B3}
Dirs == {"X1DIR", "X2DIR", "X3DIR"}

\* Exact stand-ins for the factors 0.25 and 0.5: the inputs are multiples of
\* Scale, so both divisions are exact.
Scale == 4 * 2
Quarter(x) == x \div 4
Half(x) == x \div 2

\* GridScalar emf1("emf1", n3, n2, n1) etc.: freshly allocated, zero-filled.
NewGridScalar == [k \in Cells |-> [j \in Cells |-> [i \in Cells |-> 0]]]

\* par_for("flux_ct_emf", ks+1, ke, js+1, je, is+1, ie) over the entire domain
InEmfRange(k, j, i) ==
    /\ k \in (entire_s + 1)..entire_e
    /\ j \in (entire_s + 1)..entire_e
    /\ i \in (entire_s + 1)..entire_e

\* par_for("flux_ct", ks, ke-1, js, je-1, is, ie-1) over the entire domain
InFluxCTRange(k, j, i) ==
    /\ k \in entire_s..(entire_e - 1)
    /\ j \in entire_s..(entire_e - 1)
    /\ i \in entire_s..(entire_e - 1)

F1(Fx, b, k, j, i) == Fx["X1DIR"][b][k][j][i]
F2(Fx, b, k, j, i) == Fx["X2DIR"][b][k][j][i]
F3(Fx, b, k, j, i) == Fx["X3DIR"][b][k][j][i]

\* Body of the flux_ct_emf kernel at (k, j, i).
emf3_at(Fx, k, j, i) ==
    Quarter(F1(Fx, B2, k, j, i) + F1(Fx, B2, k, j-1, i)
            - F2(Fx, B1, k, j, i) - F2(Fx, B1, k, j, i-1))
emf2_at(Fx, k, j, i) ==
    -Quarter(F1(Fx, B3, k, j, i) + F1(Fx, B3, k-1, j, i)
             - F3(Fx, B1, k, j, i) - F3(Fx, B1, k, j, i-1))
emf1_at(Fx, k, j, i) ==
    Quarter(F2(Fx, B3, k, j, i) + F2(Fx, B3, k-1, j, i)
            - F3(Fx, B2, k, j, i) - F3(Fx, B2, k, j-1, i))

emf_at(c, Fx, k, j, i) ==
    CASE c = 1 -> emf1_at(Fx, k, j, i)
      [] c = 2 -> emf2_at(Fx, k, j, i)
      [] c = 3 -> emf3_at(Fx, k, j, i)

\* Body of the flux_ct kernel at (k, j, i): the value stored in
\* Fd(prims::Bb, k, j, i).
flux_ct_at_WrongOffset(e, d, b, k, j, i) ==
    CASE d = "X1DIR" /\ b = B1 -> 0
      [] d = "X1DIR" /\ b = B2 -> Half(e[3][k][j][i] + e[3][k][j+1][i])
      [] d = "X1DIR" /\ b = B3 -> -Half(e[2][k][j][i] + e[2][k][j+1][i])
      [] d = "X2DIR" /\ b = B1 -> -Half(e[3][k][j][i] + e[3][k][j][i+1])
      [] d = "X2DIR" /\ b = B2 -> 0
      [] d = "X2DIR" /\ b = B3 -> Half(e[1][k][j][i] + e[1][k+1][j][i])
      [] d = "X3DIR" /\ b = B1 -> Half(e[2][k][j][i] + e[2][k][j][i+1])
      [] d = "X3DIR" /\ b = B2 -> -Half(e[1][k][j][i] + e[1][k][j+1][i])
      [] d = "X3DIR" /\ b = B3 -> 0

flux_ct_at(e, d, b, k, j, i) ==
    CASE d = "X1DIR" /\ b = B1 -> 0
      [] d = "X1DIR" /\ b = B2 -> Half(e[3][k][j][i] + e[3][k][j+1][i])
      [] d = "X1DIR" /\ b = B3 -> -Half(e[2][k][j][i] + e[2][k+1][j][i])
      [] d = "X2DIR" /\ b = B1 -> -Half(e[3][k][j][i] + e[3][k][j][i+1])
      [] d = "X2DIR" /\ b = B2 -> 0
      [] d = "X2DIR" /\ b = B3 -> Half(e[1][k][j][i] + e[1][k+1][j][i])
      [] d = "X3DIR" /\ b = B1 -> Half(e[2][k][j][i] + e[2][k][j][i+1])
      [] d = "X3DIR" /\ b = B2 -> -Half(e[1][k][j][i] + e[1][k][j+1][i])
      [] d = "X3DIR" /\ b = B3 -> 0

\* A location: array, its leading index (direction or EMF number), component
\* and zone.
Loc(a, d, p, k, j, i) == <<a, d, p, k, j, i>>

\* The entries the statement emf<c>(k, j, i) = ... of flux_ct_emf reads.
emf_src(c, k, j, i) ==
    CASE c = 3 -> {Loc("flux", "X1DIR", B2, k, j, i),
                   Loc("flux", "X1DIR", B2, k, j-1, i),
                   Loc("flux", "X2DIR", B1, k, j, i),
                   Loc("flux", "X2DIR", B1, k, j, i-1)}
      [] c = 2 -> {Loc("flux", "X1DIR", B3, k, j, i),
                   Loc("flux", "X1DIR", B3, k-1, j, i),
                   Loc("flux", "X3DIR", B1, k, j, i),
                   Loc("flux", "X3DIR", B1, k, j, i-1)}
      [] c = 1 -> {Loc("flux", "X2DIR", B3, k, j, i),
                   Loc("flux", "X2DIR", B3, k-1, j, i),
                   Loc("flux", "X3DIR", B2, k, j, i),
                   Loc("flux", "X3DIR", B2, k, j-1, i)}

\* The entries the statement Fd(prims::Bb, k, j, i) = ... of flux_ct reads.
flux_ct_src(d, b, k, j, i) ==
    CASE d = "X1DIR" /\ b = B1 -> {}
      [] d = "X1DIR" /\ b = B2 -> {Loc("emf", 3, "-", k, j, i),
                                   Loc("emf", 3, "-", k, j+1, i)}
      [] d = "X1DIR" /\ b = B3 -> {Loc("emf", 2, "-", k, j, i),
                                   Loc("emf", 2, "-", k+1, j, i)}
      [] d = "X2DIR" /\ b = B1 -> {Loc("emf", 3, "-", k, j, i),
                                   Loc("emf", 3, "-", k, j, i+1)}
      [] d = "X2DIR" /\ b = B2 -> {}
      [] d = "X2DIR" /\ b = B3 -> {Loc("emf", 1, "-", k, j, i),
                                   Loc("emf", 1, "-", k+1, j, i)}
      [] d = "X3DIR" /\ b = B1 -> {Loc("emf", 2, "-", k, j, i),
                                   Loc("emf", 2, "-", k, j, i+1)}
      [] d = "X3DIR" /\ b = B2 -> {Loc("emf", 1, "-", k, j, i),
                                   Loc("emf", 1, "-", k, j+1, i)}
      [] d = "X3DIR" /\ b = B3 -> {}

\* The zones the two kernels of FluxCT run over.
EmfRange == {f \in Cells \X Cells \X Cells : InEmfRange(f[1], f[2], f[3])}
FluxCTRange ==
    {f \in Cells \X Cells \X Cells : InFluxCTRange(f[1], f[2], f[3])}

\* The flux arrays on entry: the entry of direction d and component b at
\* cell q holds Scale, all others zero.  FluxCT and the update are linear in
\* the fluxes, so these inputs span every input.
InputFlux(q, d0, b0) ==
    [d \in Dirs |-> [b \in BComps |->
       [k \in Cells |-> [j \in Cells |-> [i \in Cells |->
          IF <<k, j, i>> = q /\ d = d0 /\ b = b0 THEN Scale ELSE 0]]]]]

InitCT ==
    /\ TLIdle
    /\ LRIdle
    /\ VCIdle
    /\ ParIdle
    /\ \E q \in Cells \X Cells \X Cells, d0 \in Dirs, b0 \in BComps :
          F = InputFlux(q, d0, b0)
    /\ emf = <<>>
    /\ ctpc = "start"
    /\ emfW = {}
    /\ ctW = {}

\* FluxCT, first kernel: allocate emf1..3 and fill them from F1, F2, F3.
FluxCT_emf ==
    /\ ctpc = "start"
    /\ emf' = [c \in 1..3 |-> [k \in Cells |-> [j \in Cells |-> [i \in Cells |->
                 IF InEmfRange(k, j, i) THEN emf_at(c, F, k, j, i)
                 ELSE NewGridScalar[k][j][i]]]]]
    /\ emfW' = EmfRange
    /\ ctpc' = "emf_done"
    /\ UNCHANGED <<F, ctW>>
    /\ UNCHANGED <<tlvars, lrvars, vcvars, parvars>>

\* FluxCT, second kernel: rewrite the magnetic fluxes from the EMFs.
FluxCT_flux ==
    /\ ctpc = "emf_done"
    /\ F' = [d \in Dirs |-> [b \in BComps |->
               [k \in Cells |-> [j \in Cells |-> [i \in Cells |->
                 IF InFluxCTRange(k, j, i) THEN flux_ct_at(emf, d, b, k, j, i)
                 ELSE F[d][b][k][j][i]]]]]]
    /\ ctW' = FluxCTRange
    /\ ctpc' = "done"
    /\ UNCHANGED <<emf, emfW>>
    /\ UNCHANGED <<tlvars, lrvars, vcvars, parvars>>

NextCT ==
    \/ FluxCT_emf
    \/ FluxCT_flux

SpecCT == InitCT /\ [][NextCT]_vars

(***************************************************************************)
(*                          Properties of FluxCT                           *)
(***************************************************************************)

\* Conservative update of B_b at cell (k, j, i) by face differences of the
\* fluxes (unit cell size and time step).
dB(b, k, j, i) ==
    - ( (F1(F, b, k, j, i+1) - F1(F, b, k, j, i))
      + (F2(F, b, k, j+1, i) - F2(F, b, k, j, i))
      + (F3(F, b, k+1, j, i) - F3(F, b, k, j, i)) )

\* Four times the corner-centred divergence of the cell-centred field X at
\* the corner shared by the cells (k-1..k, j-1..j, i-1..i).
CornerDiv(X(_, _, _, _), k, j, i) ==
      (X(B1, k, j, i)     - X(B1, k, j, i-1))
    + (X(B1, k, j-1, i)   - X(B1, k, j-1, i-1))
    + (X(B1, k-1, j, i)   - X(B1, k-1, j, i-1))
    + (X(B1, k-1, j-1, i) - X(B1, k-1, j-1, i-1))
    + (X(B2, k, j, i)     - X(B2, k, j-1, i))
    + (X(B2, k, j, i-1)   - X(B2, k, j-1, i-1))
    + (X(B2, k-1, j, i)   - X(B2, k-1, j-1, i))
    + (X(B2, k-1, j, i-1) - X(B2, k-1, j-1, i-1))
    + (X(B3, k, j, i)     - X(B3, k-1, j, i))
    + (X(B3, k, j, i-1)   - X(B3, k-1, j, i-1))
    + (X(B3, k, j-1, i)   - X(B3, k-1, j-1, i))
    + (X(B3, k, j-1, i-1) - X(B3, k-1, j-1, i-1))

\* Corners all of whose eight adjacent cells are interior cells.
InteriorCorners ==
    {c \in Cells \X Cells \X Cells :
        \A x \in 1..3 : c[x] - 1 >= interior_s /\ c[x] <= interior_e}

\* C1: after FluxCT, a conservative update of B by face differences of the
\* rewritten fluxes changes the corner-centred divergence of B by exactly
\* zero at every corner inside the block interior.
C1_DivBUnchanged ==
    ctpc = "done" =>
        \A c \in InteriorCorners : CornerDiv(dB, c[1], c[2], c[3]) = 0

\* FluxCT has run and the update it leaves changes B1 and B2 in a cell next
\* to an interior corner.
C1_Witness ==
    /\ ctpc = "done"
    /\ \E c \in InteriorCorners :
          \E k \in {c[1] - 1, c[1]}, j \in {c[2] - 1, c[2]},
             i \in {c[3] - 1, c[3]} :
                /\ dB(B1, k, j, i) # 0
                /\ dB(B2, k, j, i) # 0

(***************************************************************************)
(*                                LRToFlux                                 *)
(***************************************************************************)

\* The components PLOOP runs over (two of the NPRIM stand for all).
Prims == {"RHO", "UU"}

\* Values of enum Loci a face locus can take.
FaceLoci == {"face1", "face2", "face3"}

\* Direction tags LRToFlux is called with: 1, 2, 3 and the tags next to them.
DirTags == 0..4
ValidDirs == {1, 2, 3}

\* Two primitive states: components (even, so that the factor 0.5 is exact),
\* the velocity along the flux direction and the magnetosonic speed.
sA == [prim |-> [p \in Prims |-> IF p = "RHO" THEN 2 ELSE 4], v |-> 1, cs |-> 1]
sB == [prim |-> [p \in Prims |-> IF p = "RHO" THEN 6 ELSE 2], v |-> -2, cs |-> 1]

\* Primitive fields handed to LRToFlux as pl and pr.
FieldNames == {"uniformA", "uniformB", "stepI", "checker"}
PField(name) ==
    [k \in Cells |-> [j \in Cells |-> [i \in Cells |->
        CASE name = "uniformA" -> sA
          [] name = "uniformB" -> sB
          [] name = "stepI"    -> IF i <= interior_s THEN sA ELSE sB
          [] name = "checker"  -> IF (k + j + i) % 2 = 0 THEN sA ELSE sB]]]

\* GRCoordinates G: sqrt(-g) at locus l of zone (k, j, i); it does not
\* depend on k.
gdet(g, l, k, j, i) == IF g = "flat" THEN 1 ELSE 1 + i + j

\* get_state: the contravariant four-velocity component mu.
ucon(s, mu) == IF mu = 0 THEN 1 ELSE s.v

\* prim_to_flux(G, P, D, eos, k, j, i, loc, dir, out): out[p] for the state s
\* of P at (k, j, i); dir == 0 gives the conserved variable U.
prim_to_flux(g, s, l, k, j, i, d, p) ==
    gdet(g, l, k, j, i) * s.prim[p] * ucon(s, d)

\* mhd_vchar(G, P, D, eos, k, j, i, loc, dir, cmax, cmin)
mhd_vchar(g, s, l, k, j, i, d) ==
    [cmax |-> s.v + s.cs, cmin |-> s.v - s.cs]

max(a, b) == IF a >= b THEN a ELSE b
fabs(x) == IF x < 0 THEN -x ELSE x

\* cmax = fabs(max(max(0., cmaxL), cmaxR));
\* cmin = fabs(max(max(0., -cminL), -cminR));
\* ctop_loc = max(cmax, cmin);
ctop_loc_SignSlip(cmaxL, cminL, cmaxR, cminR) ==
    LET cmax == fabs(max(max(0, cmaxL), cmaxR))
        cmin == fabs(max(max(0, cminL), cminR))
    IN  max(cmax, cmin)
ctop_loc(cmaxL, cminL, cmaxR, cminR) ==
    LET cmax == fabs(max(max(0, cmaxL), cmaxR))
        cmin == fabs(max(max(0, -cminL), -cminR))
    IN  max(cmax, cmin)

\* switch (dir) in the kernel: (kl, jl, il) - (k, j, i).  No case assigns
\* them for another tag: they keep whatever the uninitialised locals hold,
\* here any offset that stays inside the arrays.
LeftOffsets(d) ==
    CASE d = 1 -> {<<0, 0, -1>>}
      [] d = 2 -> {<<0, -1, 0>>}
      [] d = 3 -> {<<-1, 0, 0>>}
      [] OTHER -> {<<0, 0, -1>>, <<0, -1, 0>>, <<-1, 0, 0>>, <<0, 0, 0>>}

\* switch (dir) before the kernel: the value of loc.  No case (and no
\* default) assigns it for another tag: it keeps an indeterminate value.
LocChoices(d) ==
    CASE d = 1 -> {"face1"}
      [] d = 2 -> {"face2"}
      [] d = 3 -> {"face3"}
      [] OTHER -> FaceLoci

\* The kernel run over the interior only, without the one-cell halo.
InUberRange_InteriorOnly(k, j, i) ==
    /\ k \in interior_s..interior_e
    /\ j \in interior_s..interior_e
    /\ i \in interior_s..interior_e

\* par_for("uber_flux", ks-1, ke+1, js-1, je+1, is-1, ie+1) over the interior
InUberRange(k, j, i) ==
    /\ k \in (interior_s - 1)..(interior_e + 1)
    /\ j \in (interior_s - 1)..(interior_e + 1)
    /\ i \in (interior_s - 1)..(interior_e + 1)

UberRange == {f \in Cells \X Cells \X Cells : InUberRange(f[1], f[2], f[3])}

\* The temporaries of one iteration of uber_flux at face (k, j, i), reading
\* the left state at offset o, with locus l and direction d.
Ul(g, Pl, l, d, o, k, j, i, p) ==
    prim_to_flux(g, Pl[k + o[1]][j + o[2]][i + o[3]], l,
                 k + o[1], j + o[2], i + o[3], 0, p)
fluxL(g, Pl, l, d, o, k, j, i, p) ==
    prim_to_flux(g, Pl[k + o[1]][j + o[2]][i + o[3]], l,
                 k + o[1], j + o[2], i + o[3], d, p)
vcharL(g, Pl, l, d, o, k, j, i) ==
    mhd_vchar(g, Pl[k + o[1]][j + o[2]][i + o[3]], l,
              k + o[1], j + o[2], i + o[3], d)
Ur(g, Pr, l, d, k, j, i, p) ==
    prim_to_flux(g, Pr[k][j][i], l, k, j, i, 0, p)
fluxR(g, Pr, l, d, k, j, i, p) ==
    prim_to_flux(g, Pr[k][j][i], l, k, j, i, d, p)
vcharR(g, Pr, l, d, k, j, i) ==
    mhd_vchar(g, Pr[k][j][i], l, k, j, i, d)

\* ctop(dir, k, j, i) = ctop_loc
ctop_at(g, Pl, Pr, l, d, o, k, j, i) ==
    ctop_loc(vcharL(g, Pl, l, d, o, k, j, i).cmax,
             vcharL(g, Pl, l, d, o, k, j, i).cmin,
             vcharR(g, Pr, l, d, k, j, i).cmax,
             vcharR(g, Pr, l, d, k, j, i).cmin)

\* flux(p, k, j, i) = 0.5 * (fluxL[p] + fluxR[p] - ctop_loc * (Ur[p] - Ul[p]))
flux_at(g, Pl, Pr, l, d, o, k, j, i, p) ==
    Half(fluxL(g, Pl, l, d, o, k, j, i, p) + fluxR(g, Pr, l, d, k, j, i, p)
         - ctop_at(g, Pl, Pr, l, d, o, k, j, i)
           * (Ur(g, Pr, l, d, k, j, i, p) - Ul(g, Pl, l, d, o, k, j, i, p)))

InitLR ==
    /\ TLIdle
    /\ CTIdle
    /\ VCIdle
    /\ ParIdle
    /\ dir \in DirTags
    /\ loc = "unset"
    /\ geom \in {"flat", "curved"}
    /\ \E n \in FieldNames : pl = PField(n)
    /\ \E n \in FieldNames : pr = PField(n)
    /\ off = <<>>
    /\ flux = [p \in Prims |-> NewGridScalar]
    /\ ctop = NewGridScalar
    /\ lrW = {}
    /\ lrpc = "call"

\* LRToFlux(rc, pl, pr, dir, flux): the switch and the uber_flux kernel.
LRToFlux ==
    /\ lrpc = "call"
    /\ \E l \in LocChoices(dir), o \in LeftOffsets(dir) :
         /\ loc' = l
         /\ off' = o
         /\ ctop' = [k \in Cells |-> [j \in Cells |-> [i \in Cells |->
                       IF InUberRange(k, j, i)
                       THEN ctop_at(geom, pl, pr, l, dir, o, k, j, i)
                       ELSE ctop[k][j][i]]]]
         /\ flux' = [p \in Prims |->
                       [k \in Cells |-> [j \in Cells |-> [i \in Cells |->
                         IF InUberRange(k, j, i)
                         THEN flux_at(geom, pl, pr, l, dir, o, k, j, i, p)
                         ELSE flux[p][k][j][i]]]]]
    /\ lrW' = UberRange
    /\ lrpc' = "done"
    /\ UNCHANGED <<dir, geom, pl, pr>>
    /\ UNCHANGED <<tlvars, ctvars, vcvars, parvars>>

\* With a tag no case handles, the uninitialised (kl, jl, il) may also point
\* outside the arrays: the first read faults and the process dies.
LRToFlux_fault ==
    /\ lrpc = "call"
    /\ dir \notin ValidDirs
    /\ lrpc' = "aborted"
    /\ UNCHANGED <<dir, loc, geom, pl, pr, off, flux, ctop, lrW>>
    /\ UNCHANGED <<tlvars, ctvars, vcvars, parvars>>

NextLR ==
    \/ LRToFlux
    \/ LRToFlux_fault

SpecLR == InitLR /\ [][NextLR]_vars

\* ---- one evaluation of the speed blend, on any four speeds ----

\* Largest magnitude of a characteristic speed explored.
MaxSpeed == 2

Speeds == (-MaxSpeed)..MaxSpeed

\* mhd_vchar returns the largest and the smallest signal speed of a state:
\* cmin <= cmax on either side.
InitVC ==
    /\ TLIdle
    /\ CTIdle
    /\ LRIdle
    /\ ParIdle
    /\ vchar \in {x \in [cmaxL : Speeds, cminL : Speeds,
                         cmaxR : Speeds, cminR : Speeds] :
                     x.cminL <= x.cmaxL /\ x.cminR <= x.cmaxR}
    /\ ctop_loc_out = 0
    /\ vpc = "vchar"

\* Lines "cmax = ...; cmin = ...; ctop_loc = ...; ctop(dir, k, j, i) = ctop_loc"
StoreCtop ==
    /\ vpc = "vchar"
    /\ ctop_loc_out' = ctop_loc(vchar.cmaxL, vchar.cminL, vchar.cmaxR, vchar.cminR)
    /\ vpc' = "stored"
    /\ UNCHANGED vchar
    /\ UNCHANGED <<tlvars, ctvars, lrvars, parvars>>

NextVC == StoreCtop

SpecVC == InitVC /\ [][NextVC]_vars

(***************************************************************************)
(*                         Properties of LRToFlux                          *)
(***************************************************************************)

\* C5 as stated: for a valid direction, at every face of the computed range
\* and every component, if the left state read equals the right state read
\* then the stored flux is the physical flux of that state at the face in
\* direction dir and the dissipation term ctop*(Ur-Ul) is zero.
C5_Original ==
    lrpc = "done" /\ dir \in ValidDirs =>
      \A f \in UberRange : \A p \in Prims :
        LET k == f[1]
            j == f[2]
            i == f[3]
        IN  pl[k + off[1]][j + off[2]][i + off[3]] = pr[k][j][i] =>
              /\ flux[p][k][j][i] =
                   prim_to_flux(geom, pr[k][j][i], loc, k, j, i, dir, p)
              /\ ctop[k][j][i]
                   * (Ur(geom, pr, loc, dir, k, j, i, p)
                      - Ul(geom, pl, loc, dir, off, k, j, i, p)) = 0

\* C6: the value stored in ctop is >= 0 and >= the absolute value of each
\* of the four extremal speeds, given cminL <= cmaxL and cminR <= cmaxR.
C6_CtopBoundsSpeeds ==
    vpc = "stored" =>
        /\ ctop_loc_out >= 0
        /\ ctop_loc_out >= fabs(vchar.cmaxL)
        /\ ctop_loc_out >= fabs(vchar.cminL)
        /\ ctop_loc_out >= fabs(vchar.cmaxR)
        /\ ctop_loc_out >= fabs(vchar.cminR)

\* Both speeds of the left state negative: the bound comes from -cminL.
C6_Witness ==
    /\ vpc = "stored"
    /\ vchar.cmaxL < 0
    /\ vchar.cminL < vchar.cmaxL
    /\ vchar.cmaxR < 0
    /\ ctop_loc_out = -vchar.cminL

\* C7 as stated: called with a direction tag outside {1,2,3}, LRToFlux ends
\* in an error state and writes nothing to the flux array or to ctop.
C7_Original ==
    dir \notin ValidDirs /\ lrpc \notin {"idle", "call"} =>
        /\ lrpc = "aborted"
        /\ lrW = {}

(***************************************************************************)
(*                          The stage task graph                           *)
(***************************************************************************)

\* Largest number of integrator stages explored.
MaxStages == 2

\* TaskID none(0): a task identifier with no bit set.
none == {}

\* Names of the tasks MakeTaskList can add, after the handles in the code.
FluxTasks == {"t_calculate_flux1", "t_calculate_flux2", "t_calculate_flux3"}

BaseTasks ==
    {"t_start_recv"} \cup FluxTasks \cup
    {"t_flux_ct", "t_send_flux", "t_recv_flux", "t_flux_divergence",
     "t_source_term", "t_update_container", "t_send", "t_recv",
     "t_fill_from_bufs", "t_clear_comm_flags", "t_prolong_bound",
     "t_set_parthenon_bc", "t_set_custom_bc", "t_fill_derived"}

AllTasks == BaseTasks \cup {"new_dt", "tag_refine"}

\* t_calculate_flux = t_calculate_flux1 | t_calculate_flux2 | t_calculate_flux3
\* (TaskID operator| sets the bits of all operands: every one is required).
t_calculate_flux_OneOnly == {"t_calculate_flux1"}
t_calculate_flux ==
    {"t_calculate_flux1"} \cup {"t_calculate_flux2"} \cup {"t_calculate_flux3"}

\* The dependency handed to AddTask for each task: flux correction,
\* flux divergence, source term and update.
DepMid_Unordered(t) ==
    CASE t = "t_send_flux"        -> {"t_flux_ct"}
      [] t = "t_recv_flux"        -> {"t_flux_ct"}
      [] t = "t_flux_divergence"  -> {"t_recv_flux"}
      [] t = "t_source_term"      -> {"t_recv_flux"}
      [] t = "t_update_container" -> {"t_source_term"}
DepMid(t) ==
    CASE t = "t_send_flux"        -> {"t_flux_ct"}
      [] t = "t_recv_flux"        -> {"t_flux_ct"}
      [] t = "t_flux_divergence"  -> {"t_recv_flux"}
      [] t = "t_source_term"      -> {"t_flux_divergence"}
      [] t = "t_update_container" -> {"t_source_term"}

\* The dependency handed to AddTask for each ghost-exchange, boundary and
\* recovery task.
DepBound_Unordered(t) ==
    CASE t = "t_send"             -> {"t_update_container"}
      [] t = "t_recv"             -> {"t_update_container"}
      [] t = "t_fill_from_bufs"   -> {"t_recv"}
      [] t = "t_clear_comm_flags" -> {"t_fill_from_bufs"}
      [] t = "t_prolong_bound"    -> {"t_fill_from_bufs"}
      [] t = "t_set_parthenon_bc" -> {"t_prolong_bound"}
      [] t = "t_set_custom_bc"    -> {"t_prolong_bound"}
      [] t = "t_fill_derived"     -> {"t_set_custom_bc"}
DepBound(t) ==
    CASE t = "t_send"             -> {"t_update_container"}
      [] t = "t_recv"             -> {"t_update_container"}
      [] t = "t_fill_from_bufs"   -> {"t_recv"}
      [] t = "t_clear_comm_flags" -> {"t_fill_from_bufs"}
      [] t = "t_prolong_bound"    -> {"t_fill_from_bufs"}
      [] t = "t_set_parthenon_bc" -> {"t_prolong_bound"}
      [] t = "t_set_custom_bc"    -> {"t_set_parthenon_bc"}
      [] t = "t_fill_derived"     -> {"t_set_custom_bc"}

Dep(t) ==
    CASE t = "t_start_recv"       -> none
      [] t \in FluxTasks          -> {"t_start_recv"}
      [] t = "t_flux_ct"          -> t_calculate_flux
      [] t \in {"t_send_flux", "t_recv_flux", "t_flux_divergence",
                "t_source_term", "t_update_container"} -> DepMid(t)
      [] t \in {"new_dt", "tag_refine"} -> {"t_fill_derived"}
      [] OTHER                    -> DepBound(t)

\* if (stage == integrator->nstages) { new_dt; if (pmesh->adaptive) tag_refine }
FinalStageTasks_Always(s, n, adp) ==
    {"new_dt"} \cup (IF adp THEN {"tag_refine"} ELSE {})
FinalStageTasks(s, n, adp) ==
    IF s = n
    THEN {"new_dt"} \cup (IF adp THEN {"tag_refine"} ELSE {})
    ELSE {}

\* stage_name[]: the container each stage index names.  The list is owned by
\* the multi-stage driver; the last stage's output is the base container.
stage_name(i, n) == IF i = n THEN 0 ELSE i

\* auto& sc0 = real_containers.Get(stage_name[stage-1]);
sc0(s, n) == stage_name(s - 1, n)
\* auto& sc1 = real_containers.Get(stage_name[stage]);
sc1(s, n) == stage_name(s, n)

\* The container FillDerived is handed.
FillDerivedArg_sc0(s, n) == sc0(s, n)
FillDerivedArg(s, n) == sc1(s, n)

\* Tasks that write the conservative state U of sc1 (and leave P alone).
UWriters == {"t_update_container", "t_fill_from_bufs", "t_prolong_bound",
             "t_set_parthenon_bc", "t_set_custom_bc"}

\* Tasks that poll for remote data and may return TaskStatus::incomplete.
Pollers == {"t_recv_flux", "t_recv"}

Lockstep(c) == containers[c].pver = containers[c].ucount

\* Step start: only the base container exists, U and P in lockstep.
InitTL ==
    /\ nstages \in 1..MaxStages
    /\ adaptive \in BOOLEAN
    /\ stage = 1
    /\ tl = <<>>
    /\ status = <<>>
    /\ containers = [c \in {0} |-> [ucount |-> 0, pver |-> 0]]
    /\ capt = 0
    /\ lastWritten = 0
    /\ dtset = 0
    /\ refchk = 0
    /\ CTIdle
    /\ LRIdle
    /\ VCIdle
    /\ ParIdle

\* HARMDriver::MakeTaskList(pmb, stage)
MakeTaskList ==
    /\ stage \in 1..nstages
    /\ tl = <<>>
    /\ containers' =
         IF stage = 1
         THEN [c \in 0..(nstages - 1) |-> containers[0]]
         ELSE containers
    /\ tl' = [t \in BaseTasks \cup FinalStageTasks(stage, nstages, adaptive)
                |-> Dep(t)]
    /\ status' = [t \in BaseTasks \cup FinalStageTasks(stage, nstages, adaptive)
                    |-> "pending"]
    /\ UNCHANGED <<nstages, adaptive, stage, capt, lastWritten, dtset, refchk>>
    /\ UNCHANGED <<ctvars, lrvars, vcvars, parvars>>

\* The executor starts a task once every task of its dependency is complete.
Ready(t) ==
    /\ t \in DOMAIN tl
    /\ status[t] = "pending"
    /\ \A d \in tl[t] : status[d] = "complete"

BumpU(c) ==
    [containers EXCEPT ![c].ucount = containers[c].ucount + 1]

StartTask(t) ==
    /\ Ready(t)
    /\ status' = [status EXCEPT ![t] = "running"]
    /\ containers' = IF t \in UWriters THEN BumpU(sc1(stage, nstages))
                     ELSE containers
    /\ capt' = IF t = "t_fill_derived"
               THEN containers[FillDerivedArg(stage, nstages)].ucount
               ELSE capt
    /\ lastWritten' = IF t = "t_update_container"
                      THEN sc1(stage, nstages)
                      ELSE lastWritten
    /\ UNCHANGED <<nstages, adaptive, stage, tl, dtset, refchk>>
    /\ UNCHANGED <<ctvars, lrvars, vcvars, parvars>>

FinishTask(t) ==
    /\ t \in DOMAIN tl
    /\ status[t] = "running"
    /\ status' = [status EXCEPT ![t] = "complete"]
    /\ containers' =
         IF t \in UWriters THEN BumpU(sc1(stage, nstages))
         ELSE IF t = "t_fill_derived"
         THEN [containers EXCEPT ![FillDerivedArg(stage, nstages)].pver = capt]
         ELSE containers
    /\ dtset' = IF t = "new_dt" THEN dtset + 1 ELSE dtset
    /\ refchk' = IF t = "tag_refine" THEN refchk + 1 ELSE refchk
    /\ UNCHANGED <<nstages, adaptive, stage, tl, capt, lastWritten>>
    /\ UNCHANGED <<ctvars, lrvars, vcvars, parvars>>

\* A polling task found its data missing: it is tried again later.
TaskIncomplete(t) ==
    /\ t \in DOMAIN tl
    /\ t \in Pollers
    /\ status[t] = "running"
    /\ status' = [status EXCEPT ![t] = "pending"]
    /\ UNCHANGED <<nstages, adaptive, stage, tl, containers, capt,
                   lastWritten, dtset, refchk>>
    /\ UNCHANGED <<ctvars, lrvars, vcvars, parvars>>

\* The stage's list is complete; the driver moves to the next stage.
StageDone ==
    /\ tl # <<>>
    /\ \A t \in DOMAIN tl : status[t] = "complete"
    /\ stage <= nstages
    /\ stage' = stage + 1
    /\ tl' = <<>>
    /\ status' = <<>>
    /\ UNCHANGED <<nstages, adaptive, containers, capt, lastWritten, dtset,
                   refchk>>
    /\ UNCHANGED <<ctvars, lrvars, vcvars, parvars>>

NextTL ==
    \/ MakeTaskList
    \/ \E t \in AllTasks : StartTask(t)
    \/ \E t \in AllTasks : FinishTask(t)
    \/ \E t \in Pollers : TaskIncomplete(t)
    \/ StageDone

SpecTL == InitTL /\ [][NextTL]_vars

(***************************************************************************)
(*                    Properties of the stage task graph                   *)
(***************************************************************************)

St(t) == IF t \in DOMAIN status THEN status[t] ELSE "absent"
Started(t) == St(t) \in {"running", "complete"}
Complete(t) == St(t) = "complete"
\* t has been started at least once only if every task of ds is complete.
After(t, ds) == St(t) = "running" \/ St(t) = "complete"
                    => \A d \in ds : Complete(d)

\* C2: FluxCT starts only after CalculateFlux1, CalculateFlux2 and
\* CalculateFlux3 have all completed; the three flux tasks wait for the
\* start-receive task only, so each of them can start whatever the state of
\* the other two.
C2_FluxCTAfterAllFluxes ==
    /\ After("t_flux_ct", FluxTasks)
    /\ \A f \in FluxTasks :
         /\ After(f, {"t_start_recv"})
         /\ (Complete("t_start_recv") /\ St(f) = "pending"
                => ENABLED StartTask(f))

C2_Witness ==
    /\ St("t_flux_ct") = "running"
    /\ \A f \in FluxTasks : Complete(f)

\* C3 as stated: FluxCT, then flux-correction send and receive, then
\* FluxDivergence only after BOTH send and receive have completed, then
\* SourceTerm, then UpdateContainer.
C3_Original ==
    /\ After("t_send_flux", {"t_flux_ct"})
    /\ After("t_recv_flux", {"t_flux_ct"})
    /\ After("t_flux_divergence", {"t_send_flux", "t_recv_flux"})
    /\ After("t_source_term", {"t_flux_divergence"})
    /\ After("t_update_container", {"t_source_term"})

\* C3 as amended: the flux-correction send and receive both start only after
\* FluxCT completes, FluxDivergence starts only after the RECEIVE has
\* completed (nothing in the chain waits for the send), SourceTerm only
\* after FluxDivergence, and UpdateContainer only after SourceTerm.
C3_FluxDivergenceAfterRecv ==
    /\ After("t_send_flux", {"t_flux_ct"})
    /\ After("t_recv_flux", {"t_flux_ct"})
    /\ After("t_flux_divergence", {"t_flux_ct", "t_recv_flux"})
    /\ After("t_source_term", {"t_flux_divergence"})
    /\ After("t_update_container", {"t_source_term"})

C3_Witness ==
    /\ St("t_update_container") = "running"
    /\ Complete("t_source_term")
    /\ Complete("t_recv_flux")

\* C4 as stated: send, receive, set boundaries and clear boundary have ALL
\* completed before boundary prolongation starts; then prolongation, generic
\* boundary conditions, custom boundary conditions and FillDerived run in
\* that order.
C4_Original ==
    /\ After("t_send", {"t_update_container"})
    /\ After("t_recv", {"t_update_container"})
    /\ After("t_prolong_bound",
             {"t_send", "t_recv", "t_fill_from_bufs", "t_clear_comm_flags"})
    /\ After("t_set_parthenon_bc", {"t_prolong_bound"})
    /\ After("t_set_custom_bc", {"t_set_parthenon_bc"})
    /\ After("t_fill_derived", {"t_set_custom_bc"})

\* C4 as amended: after UpdateContainer completes, receive boundary buffers
\* and set boundaries have completed before boundary prolongation starts
\* (the send and the clear-boundary task start after UpdateContainer and
\* after set boundaries respectively, but prolongation does not wait for
\* them); then prolongation, generic boundary conditions, custom boundary
\* conditions and FillDerived run strictly in that order.
C4_ProlongAfterSetBoundaries ==
    /\ After("t_send", {"t_update_container"})
    /\ After("t_recv", {"t_update_container"})
    /\ After("t_fill_from_bufs", {"t_recv"})
    /\ After("t_clear_comm_flags", {"t_fill_from_bufs"})
    /\ After("t_prolong_bound",
             {"t_update_container", "t_recv", "t_fill_from_bufs"})
    /\ After("t_set_parthenon_bc", {"t_prolong_bound"})
    /\ After("t_set_custom_bc", {"t_set_parthenon_bc"})
    /\ After("t_fill_derived", {"t_set_custom_bc"})

C4_Witness ==
    /\ St("t_fill_derived") = "running"
    /\ Complete("t_set_custom_bc")
    /\ Complete("t_prolong_bound")

\* C8: whenever a directional flux task is reading its container sc0, the
\* primitives of sc0 were recovered after the last write to its conservative
\* state; a container is out of lockstep only between the start of
\* UpdateContainer and the completion of FillDerived of the stage that
\* writes it; and from the second stage on the container read is the one
\* the previous stage wrote.
C8_FluxReadsRecoveredState ==
    /\ \A f \in FluxTasks :
         St(f) = "running" =>
            /\ Lockstep(sc0(stage, nstages))
            /\ (stage > 1 => sc0(stage, nstages) = lastWritten)
    /\ \A c \in DOMAIN containers :
         ~Lockstep(c) =>
            /\ stage \in 1..nstages
            /\ c = sc1(stage, nstages)
            /\ Started("t_update_container")
            /\ ~Complete("t_fill_derived")

C8_Witness ==
    /\ stage = 2
    /\ nstages = 2
    /\ St("t_calculate_flux2") = "running"
    /\ containers[1].ucount > 0

\* C9: the timestep-estimate task (and, on an adaptive mesh, the
\* refinement-check task) is in a stage's task list only when stage equals
\* nstages, it starts only after FillDerived has completed, and no timestep
\* is set in any earlier stage.
C9_TimestepOnlyInFinalStage ==
    /\ St("new_dt") # "absent" => stage = nstages
    /\ St("tag_refine") # "absent" => stage = nstages /\ adaptive
    /\ After("new_dt", {"t_fill_derived"})
    /\ After("tag_refine", {"t_fill_derived"})
    /\ stage < nstages => dtset = 0 /\ refchk = 0

C9_Witness ==
    /\ nstages = 2
    /\ stage = 2
    /\ adaptive
    /\ dtset = 1
    /\ St("tag_refine") = "running"

(***************************************************************************)
(*              Memory accesses of the kernels' iterations                 *)
(***************************************************************************)

\* The direction tag CalculateFlux<d> hands LRToFlux, and its flux array.
DirOf(t) ==
    CASE t = "t_calculate_flux1" -> 1
      [] t = "t_calculate_flux2" -> 2
      [] t = "t_calculate_flux3" -> 3
DirName(d) ==
    CASE d = 1 -> "X1DIR" [] d = 2 -> "X2DIR" [] d = 3 -> "X3DIR"

\* One iteration of uber_flux for direction d at (k, j, i).
uber_flux_writes_SharedCtop(d, k, j, i) ==
    {Loc("ctop", 0, "-", k, j, i)}
    \cup {Loc("flux", DirName(d), p, k, j, i) : p \in Prims}
uber_flux_writes(d, k, j, i) ==
    {Loc("ctop", d, "-", k, j, i)}
    \cup {Loc("flux", DirName(d), p, k, j, i) : p \in Prims}
uber_flux_reads(d, k, j, i) ==
    {Loc("pl", d, p, k + o[1], j + o[2], i + o[3]) :
         p \in Prims, o \in LeftOffsets(d)}
    \cup {Loc("pr", d, p, k, j, i) : p \in Prims}

\* One iteration of flux_ct_emf at (k, j, i).
flux_ct_emf_writes(k, j, i) ==
    {Loc("emf", 3, "-", k, j, i), Loc("emf", 2, "-", k, j, i),
     Loc("emf", 1, "-", k, j, i)}
flux_ct_emf_reads(k, j, i) ==
    {Loc("flux", "X1DIR", B2, k, j, i), Loc("flux", "X1DIR", B2, k, j-1, i),
     Loc("flux", "X2DIR", B1, k, j, i), Loc("flux", "X2DIR", B1, k, j, i-1),
     Loc("flux", "X1DIR", B3, k, j, i), Loc("flux", "X1DIR", B3, k-1, j, i),
     Loc("flux", "X3DIR", B1, k, j, i), Loc("flux", "X3DIR", B1, k, j, i-1),
     Loc("flux", "X2DIR", B3, k, j, i), Loc("flux", "X2DIR", B3, k-1, j, i),
     Loc("flux", "X3DIR", B2, k, j, i), Loc("flux", "X3DIR", B2, k, j-1, i)}

\* One iteration of flux_ct at (k, j, i).
flux_ct_writes(k, j, i) ==
    {Loc("flux", d, b, k, j, i) : d \in Dirs, b \in BComps}
flux_ct_reads(k, j, i) ==
    {Loc("emf", 3, "-", k, j, i), Loc("emf", 3, "-", k, j+1, i),
     Loc("emf", 2, "-", k, j, i), Loc("emf", 2, "-", k+1, j, i),
     Loc("emf", 3, "-", k, j, i+1),
     Loc("emf", 1, "-", k, j, i), Loc("emf", 1, "-", k+1, j, i),
     Loc("emf", 2, "-", k, j, i+1),
     Loc("emf", 1, "-", k, j+1, i)}

\* The iterations of each par_for: the task that launches the kernel, the
\* kernel and the zone.
Iterations ==
    {[task |-> t, kern |-> "uber_flux", z |-> f] :
        t \in FluxTasks, f \in UberRange}
    \cup {[task |-> "t_flux_ct", kern |-> "flux_ct_emf", z |-> f] :
        f \in {g \in Cells \X Cells \X Cells : InEmfRange(g[1], g[2], g[3])}}
    \cup {[task |-> "t_flux_ct", kern |-> "flux_ct", z |-> f] :
        f \in {g \in Cells \X Cells \X Cells : InFluxCTRange(g[1], g[2], g[3])}}

Writes(x) ==
    CASE x.kern = "uber_flux" ->
             uber_flux_writes(DirOf(x.task), x.z[1], x.z[2], x.z[3])
      [] x.kern = "flux_ct_emf" -> flux_ct_emf_writes(x.z[1], x.z[2], x.z[3])
      [] x.kern = "flux_ct" -> flux_ct_writes(x.z[1], x.z[2], x.z[3])
Reads(x) ==
    CASE x.kern = "uber_flux" ->
             uber_flux_reads(DirOf(x.task), x.z[1], x.z[2], x.z[3])
      [] x.kern = "flux_ct_emf" -> flux_ct_emf_reads(x.z[1], x.z[2], x.z[3])
      [] x.kern = "flux_ct" -> flux_ct_reads(x.z[1], x.z[2], x.z[3])

\* Two iterations can be executing at once when they belong to the same
\* par_for, or to tasks neither of which waits for the other; the kernels of
\* one task run one after the other.
MayOverlap(x, y) ==
    IF x.task = y.task
    THEN x.kern = y.kern
    ELSE x.task \notin Dep(y.task) /\ y.task \notin Dep(x.task)

InitPar ==
    /\ TLIdle
    /\ CTIdle
    /\ LRIdle
    /\ VCIdle
    /\ inflight = {}

BeginIteration(x) ==
    /\ x \notin inflight
    /\ Cardinality(inflight) < 2
    /\ \A y \in inflight : MayOverlap(x, y)
    /\ inflight' = inflight \cup {x}
    /\ UNCHANGED <<tlvars, ctvars, lrvars, vcvars>>

EndIteration(x) ==
    /\ x \in inflight
    /\ inflight' = inflight \ {x}
    /\ UNCHANGED <<tlvars, ctvars, lrvars, vcvars>>

NextPar ==
    \/ \E x \in Iterations : BeginIteration(x)
    \/ \E x \in Iterations : EndIteration(x)

SpecPar == InitPar /\ [][NextPar]_vars

\* C10: two kernel iterations that can be executing at once (two iterations
\* of the same uber_flux, flux_ct_emf or flux_ct kernel, or iterations of
\* the uber_flux kernels of two directional flux tasks) never write the same
\* location, and neither reads a location the other writes.
C10_NoConflictingAccess ==
    \A x, y \in inflight :
        x # y => Writes(x) \cap (Writes(y) \cup Reads(y)) = {}

\* Two directional flux tasks working on the same face at the same time.
C10_Witness ==
    \E x, y \in inflight :
        /\ x.kern = "uber_flux"
        /\ y.kern = "uber_flux"
        /\ x.task # y.task
        /\ x.z = y.z

(***************************************************************************)
(*                 Data flow from LRToFlux through FluxCT                  *)
(***************************************************************************)

\* The magnetic flux entries the three CalculateFlux tasks of the stage
\* leave written: PLOOP of uber_flux over its range, for each direction.
StageFluxWrites ==
    {Loc("flux", d, b, f[1], f[2], f[3]) :
        d \in Dirs, b \in BComps, f \in UberRange}

\* Position in (k, j, i) of the index that runs along direction d.
Axis(d) ==
    CASE d = "X1DIR" -> 3 [] d = "X2DIR" -> 2 [] d = "X3DIR" -> 1

\* The faces of interior cells normal to direction d: interior start to
\* interior end plus one along d, interior start to interior end across it.
InteriorFaces(d) ==
    {f \in Cells \X Cells \X Cells :
        \A x \in 1..3 :
            /\ f[x] >= interior_s
            /\ f[x] <= (IF x = Axis(d) THEN interior_e + 1 ELSE interior_e)}

InteriorFaceFlux ==
    UNION {{Loc("flux", d, b, f[1], f[2], f[3]) :
               b \in BComps, f \in InteriorFaces(d)} : d \in Dirs}

\* The zone of an entry, the value a flux entry holds, the value an EMF
\* entry holds, and the entries the statement that stores x or e reads.
Zone(x) == <<x[4], x[5], x[6]>>
FluxAt(Fx, x) == Fx[x[2]][x[3]][x[4]][x[5]][x[6]]
EmfAt(e) == emf[e[2]][e[4]][e[5]][e[6]]
FluxSrc(x) == flux_ct_src(x[2], x[3], x[4], x[5], x[6])
EmfSrc(e) == emf_src(e[2], e[4], e[5], e[6])

\* C11: every magnetic flux at a face of an interior cell is rewritten by
\* FluxCT, from EMF entries the flux_ct_emf pass wrote in this call only,
\* and those were computed from flux entries LRToFlux wrote in this stage
\* only (zones of the interior extended by one cell each way); and the
\* values agree: when the written flux entries are all zero, whatever the
\* unwritten ones hold, the value flux_ct stores at every interior face is
\* zero.
C11_InteriorFluxFromWrittenEntries ==
    /\ ctpc = "done" =>
          \A x \in InteriorFaceFlux :
              /\ Zone(x) \in ctW
              /\ \A e \in FluxSrc(x) :
                    /\ Zone(e) \in emfW
                    /\ \A y \in EmfSrc(e) : InUberRange(y[4], y[5], y[6])
    /\ (ctpc = "emf_done" /\ \A y \in StageFluxWrites : FluxAt(F, y) = 0) =>
          \A x \in InteriorFaceFlux :
              flux_ct_at(emf, x[2], x[3], x[4], x[5], x[6]) = 0

\* FluxCT has stored a nonzero flux at an interior face from a nonzero EMF
\* that was computed from a flux entry of the halo around the interior.
C11_Witness ==
    /\ ctpc = "done"
    /\ \E x \in InteriorFaceFlux :
          /\ Zone(x) \in ctW
          /\ FluxAt(F, x) # 0
          /\ \E e \in FluxSrc(x) :
                /\ EmfAt(e) # 0
                /\ \E y \in EmfSrc(e) :
                      \E a \in 1..3 :
                          Zone(y)[a] < interior_s \/ Zone(y)[a] > interior_e

=============================================================================
